---- MODULE Spec2Model ----
(***************************************************************************)
(* Well spacing features of the ETL pipeline: distance_in_feet             *)
(* (src/src/utils.py) and WellSpacingAnalyzer (src/src/well_spacing.py).   *)
(*                                                                         *)
(* Numbers.  A Python float is a record [kind, num, den]: kind "float"     *)
(* carries the exact rational num/den (den > 0, lowest terms), the other   *)
(* kinds are nan, inf, -inf.  The Python object None is a value of its own *)
(* kind.  Coordinates are in micro-degrees (40.014472 is Num(40014472)),   *)
(* distances in feet.                                                      *)
(***************************************************************************)
EXTENDS Integers, Sequences, FiniteSets, TLC

VARIABLES
  input_df,          \* the DataFrame the caller passes to WellSpacingAnalyzer
  wells_df,          \* self.wells_df
  horizontal_wells,  \* self.horizontal_wells
  returned,          \* the value add_spacing_features returned
  exception,         \* the exception add_spacing_features let through
  pc,                \* the position of the caller, "new", "done", ...
  args,              \* <<lat1, lng1, lat2, lng2>> of a distance_in_feet call
  outcome,           \* what that call returned or raised
  aliased,           \* self.wells_df is the caller's DataFrame object
  wells_file,        \* the rows of input/Wells.csv
  bottom_hole_file,  \* the rows of input/BottomholeLocations.csv
  production_file,   \* the records of input/Production.xml
  merged_df,         \* wells_df of ETLPipeline.run
  production_df,     \* production_df of ETLPipeline.run
  wells_final,       \* wells_final of ETLPipeline.run
  engine,            \* DatabaseLoader.engine is set
  tables,            \* the database: table name -> rows loaded
  stats,             \* ETLPipeline.stats
  completed,         \* the steps of ETLPipeline.run that returned, in order
  run_result         \* "running" | "returned" | "raised": how run() ended

\* the state of one ETLPipeline.run
run_vars == <<wells_file, bottom_hole_file, production_file, merged_df,
              production_df, wells_final, engine, tables, stats, completed,
              run_result>>

vars == <<input_df, wells_df, horizontal_wells, returned, exception, pc, args,
          outcome, aliased, run_vars>>

(* ---------------------------------------------------------------------- *)
(* Python values                                                          *)
(* ---------------------------------------------------------------------- *)
RECURSIVE GCD(_, _)
GCD(a, b) == IF b = 0 THEN a ELSE GCD(b, a % b)

Abs(n) == IF n < 0 THEN -n ELSE n

Frac(n, d) ==
  LET g == GCD(Abs(n), d)
  IN  [kind |-> "float", num |-> n \div g, den |-> d \div g]

Num(v)  == [kind |-> "float", num |-> v, den |-> 1]
NaN     == [kind |-> "nan",   num |-> 0, den |-> 1]
PosInf  == [kind |-> "inf",   num |-> 0, den |-> 1]
NegInf  == [kind |-> "-inf",  num |-> 0, den |-> 1]
None    == [kind |-> "None",  num |-> 0, den |-> 1]

\* isinstance(coord, (int, float))
isinstance_number(c) == c.kind \in {"float", "nan", "inf", "-inf"}

math_isnan(c) == c.kind = "nan"

\* pd.isna / pd.notna on a scalar
pd_isna(c)  == c.kind \in {"nan", "None"}
pd_notna(c) == ~pd_isna(c)

\* a <= b on floats (IEEE: every comparison with nan is false)
FloatLe(a, b) ==
  CASE a.kind = "nan" \/ b.kind = "nan" -> FALSE
    [] a.kind = "-inf" \/ b.kind = "inf" -> TRUE
    [] a.kind = "inf" \/ b.kind = "-inf" -> FALSE
    [] OTHER -> a.num * b.den <= b.num * a.den

\* a < b on floats
FloatLt(a, b) == FloatLe(a, b) /\ a # b

(* ---------------------------------------------------------------------- *)
(* distance_in_feet                                                       *)
(* ---------------------------------------------------------------------- *)
\* The latitudes and longitudes (micro-degrees) on which the haversine
\* value is tabulated: the meridian through (37.1, -111.0) with points
\* 5280, 10560 and 10561 feet north of it, its antipode (-37.1, 69.0),
\* the poles, the date line, and the latitude 91 that only a call without
\* the range check of lines 33-35 passes on to the formula.
GridLat == <<-90000000, -37100000, 37100000, 37114472, 37128945, 37128948,
             90000000, 91000000>>
GridLng == <<-180000000, -111000000, 69000000, 180000000>>

\* the position of each value in a sequence without repetitions
IndexIn(s) ==
  [v \in {s[i] : i \in 1..Len(s)} |-> CHOOSE i \in 1..Len(s) : s[i] = v]
LatIndex == IndexIn(GridLat)
LngIndex == IndexIn(GridLng)

\* row/column of the point (lat, lng) in HaversineFeet
GridIndex(lat, lng) == (LatIndex[lat] - 1) * Len(GridLng) + LngIndex[lng]

\* round(radius_earth_feet * c) of lines 41-54, evaluated in IEEE-754
\* double arithmetic for every pair of grid points; -1 where a > 1 and
\* math.sqrt(1 - a) raises ValueError("math domain error").
HaversineFeet ==
  <<
    <<0, 0, 0, 0, 19298595, 19298595, 19298595, 19298595,
      46367701, 46367701, 46367701, 46367701, 46372980, 46372980, 46372980, 46372980,
      46378260, 46378260, 46378260, 46378260, 46378261, 46378261, 46378261, 46378261,
      65666295, 65666295, 65666295, 65666295, 65301483, 65301483, 65301483, 65301483>>,
    <<0, 0, 0, 0, 19298595, 19298595, 19298595, 19298595,
      46367701, 46367701, 46367701, 46367701, 46372980, 46372980, 46372980, 46372980,
      46378260, 46378260, 46378260, 46378260, 46378261, 46378261, 46378261, 46378261,
      65666295, 65666295, 65666295, 65666295, 65301483, 65301483, 65301483, 65301483>>,
    <<0, 0, 0, 0, 19298595, 19298595, 19298595, 19298595,
      46367701, 46367701, 46367701, 46367701, 46372980, 46372980, 46372980, 46372980,
      46378260, 46378260, 46378260, 46378260, 46378261, 46378261, 46378261, 46378261,
      65666295, 65666295, 65666295, 65666295, 65301483, 65301483, 65301483, 65301483>>,
    <<0, 0, 0, 0, 19298595, 19298595, 19298595, 19298595,
      46367701, 46367701, 46367701, 46367701, 46372980, 46372980, 46372980, 46372980,
      46378260, 46378260, 46378260, 46378260, 46378261, 46378261, 46378261, 46378261,
      65666295, 65666295, 65666295, 65666295, 65301483, 65301483, 65301483, 65301483>>,
    <<19298595, 19298595, 19298595, 19298595, 0, 19595141, 29983978, 0,
      27069106, 35682317, 46071155, 27069106, 27074386, 35685800, 46073176, 27074386,
      27079666, 35689283, 46075197, 27079666, 27079667, 35689283, 46075197, 27079667,
      46367701, 46367701, 46367701, 46367701, 46732514, 46496324, 46234881, 46732514>>,
    <<19298595, 19298595, 19298595, 19298595, 19595141, 0, 38597189, 19595141,
      35682317, 27069106, -1, 35682317, 35685800, 27074386, 65661016, 35685800,
      35689283, 27079666, 65655736, 35689283, 35689283, 27079667, 65655735, 35689283,
      46367701, 46367701, 46367701, 46367701, 46496324, 46732514, 46002888, 46496324>>,
    <<19298595, 19298595, 19298595, 19298595, 29983978, 38597189, 0, 29983978,
      46071155, -1, 27069106, 46071155, 46073176, 65661016, 27074386, 46073176,
      46075197, 65655736, 27079666, 46075197, 46075197, 65655735, 27079667, 46075197,
      46367701, 46367701, 46367701, 46367701, 46234881, 46002888, 46732514, 46234881>>,
    <<19298595, 19298595, 19298595, 19298595, 0, 19595141, 29983978, 0,
      27069106, 35682317, 46071155, 27069106, 27074386, 35685800, 46073176, 27074386,
      27079666, 35689283, 46075197, 27079666, 27079667, 35689283, 46075197, 27079667,
      46367701, 46367701, 46367701, 46367701, 46732514, 46496324, 46234881, 46732514>>,
    <<46367701, 46367701, 46367701, 46367701, 27069106, 35682317, 46071155, 27069106,
      0, 19595141, 29983978, 0, 5280, 19593119, 29980495, 5280,
      10560, 19591098, 29977013, 10560, 10561, 19591098, 29977012, 10561,
      19298595, 19298595, 19298595, 19298595, 19663407, 19431415, 19169972, 19663407>>,
    <<46367701, 46367701, 46367701, 46367701, 35682317, 27069106, -1, 35682317,
      19595141, 0, 38597189, 19595141, 19593119, 5280, 38591910, 19593119,
      19591098, 10560, 38586630, 19591098, 19591098, 10561, 38586629, 19591098,
      19298595, 19298595, 19298595, 19298595, 19431415, 19663407, 18933782, 19431415>>,
    <<46367701, 46367701, 46367701, 46367701, 46071155, -1, 27069106, 46071155,
      29983978, 38597189, 0, 29983978, 29980495, 38591910, 5280, 29980495,
      29977013, 38586630, 10560, 29977013, 29977012, 38586629, 10561, 29977012,
      19298595, 19298595, 19298595, 19298595, 19169972, 18933782, 19663407, 19169972>>,
    <<46367701, 46367701, 46367701, 46367701, 27069106, 35682317, 46071155, 27069106,
      0, 19595141, 29983978, 0, 5280, 19593119, 29980495, 5280,
      10560, 19591098, 29977013, 10560, 10561, 19591098, 29977012, 10561,
      19298595, 19298595, 19298595, 19298595, 19663407, 19431415, 19169972, 19663407>>,
    <<46372980, 46372980, 46372980, 46372980, 27074386, 35685800, 46073176, 27074386,
      5280, 19593119, 29980495, 5280, 0, 19591096, 29977012, 0,
      5280, 19589074, 29973529, 5280, 5281, 19589074, 29973528, 5281,
      19293315, 19293315, 19293315, 19293315, 19658128, 19426136, 19164693, 19658128>>,
    <<46372980, 46372980, 46372980, 46372980, 35685800, 27074386, 65661016, 35685800,
      19593119, 5280, 38591910, 19593119, 19591096, 0, 38586630, 19591096,
      19589074, 5280, 38581350, 19589074, 19589074, 5281, 38581349, 19589074,
      19293315, 19293315, 19293315, 19293315, 19426136, 19658128, 18928502, 19426136>>,
    <<46372980, 46372980, 46372980, 46372980, 46073176, 65661016, 27074386, 46073176,
      29980495, 38591910, 5280, 29980495, 29977012, 38586630, 0, 29977012,
      29973529, 38581350, 5280, 29973529, 29973528, 38581349, 5281, 29973528,
      19293315, 19293315, 19293315, 19293315, 19164693, 18928502, 19658128, 19164693>>,
    <<46372980, 46372980, 46372980, 46372980, 27074386, 35685800, 46073176, 27074386,
      5280, 19593119, 29980495, 5280, 0, 19591096, 29977012, 0,
      5280, 19589074, 29973529, 5280, 5281, 19589074, 29973528, 5281,
      19293315, 19293315, 19293315, 19293315, 19658128, 19426136, 19164693, 19658128>>,
    <<46378260, 46378260, 46378260, 46378260, 27079666, 35689283, 46075197, 27079666,
      10560, 19591098, 29977013, 10560, 5280, 19589074, 29973529, 5280,
      0, 19587050, 29970044, 0, 1, 19587050, 29970044, 1,
      19288035, 19288035, 19288035, 19288035, 19652848, 19420857, 19159414, 19652848>>,
    <<46378260, 46378260, 46378260, 46378260, 35689283, 27079666, 65655736, 35689283,
      19591098, 10560, 38586630, 19591098, 19589074, 5280, 38581350, 19589074,
      19587050, 0, 38576070, 19587050, 19587050, 1, 38576069, 19587050,
      19288035, 19288035, 19288035, 19288035, 19420857, 19652848, 18923222, 19420857>>,
    <<46378260, 46378260, 46378260, 46378260, 46075197, 65655736, 27079666, 46075197,
      29977013, 38586630, 10560, 29977013, 29973529, 38581350, 5280, 29973529,
      29970044, 38576070, 0, 29970044, 29970044, 38576069, 1, 29970044,
      19288035, 19288035, 19288035, 19288035, 19159414, 18923222, 19652848, 19159414>>,
    <<46378260, 46378260, 46378260, 46378260, 27079666, 35689283, 46075197, 27079666,
      10560, 19591098, 29977013, 10560, 5280, 19589074, 29973529, 5280,
      0, 19587050, 29970044, 0, 1, 19587050, 29970044, 1,
      19288035, 19288035, 19288035, 19288035, 19652848, 19420857, 19159414, 19652848>>,
    <<46378261, 46378261, 46378261, 46378261, 27079667, 35689283, 46075197, 27079667,
      10561, 19591098, 29977012, 10561, 5281, 19589074, 29973528, 5281,
      1, 19587050, 29970044, 1, 0, 19587050, 29970043, 0,
      19288034, 19288034, 19288034, 19288034, 19652847, 19420856, 19159413, 19652847>>,
    <<46378261, 46378261, 46378261, 46378261, 35689283, 27079667, 65655735, 35689283,
      19591098, 10561, 38586629, 19591098, 19589074, 5281, 38581349, 19589074,
      19587050, 1, 38576069, 19587050, 19587050, 0, 38576068, 19587050,
      19288034, 19288034, 19288034, 19288034, 19420856, 19652847, 18923221, 19420856>>,
    <<46378261, 46378261, 46378261, 46378261, 46075197, 65655735, 27079667, 46075197,
      29977012, 38586629, 10561, 29977012, 29973528, 38581349, 5281, 29973528,
      29970044, 38576069, 1, 29970044, 29970043, 38576068, 0, 29970043,
      19288034, 19288034, 19288034, 19288034, 19159413, 18923221, 19652847, 19159413>>,
    <<46378261, 46378261, 46378261, 46378261, 27079667, 35689283, 46075197, 27079667,
      10561, 19591098, 29977012, 10561, 5281, 19589074, 29973528, 5281,
      1, 19587050, 29970044, 1, 0, 19587050, 29970043, 0,
      19288034, 19288034, 19288034, 19288034, 19652847, 19420856, 19159413, 19652847>>,
    <<65666295, 65666295, 65666295, 65666295, 46367701, 46367701, 46367701, 46367701,
      19298595, 19298595, 19298595, 19298595, 19293315, 19293315, 19293315, 19293315,
      19288035, 19288035, 19288035, 19288035, 19288034, 19288034, 19288034, 19288034,
      0, 0, 0, 0, 364813, 364813, 364813, 364813>>,
    <<65666295, 65666295, 65666295, 65666295, 46367701, 46367701, 46367701, 46367701,
      19298595, 19298595, 19298595, 19298595, 19293315, 19293315, 19293315, 19293315,
      19288035, 19288035, 19288035, 19288035, 19288034, 19288034, 19288034, 19288034,
      0, 0, 0, 0, 364813, 364813, 364813, 364813>>,
    <<65666295, 65666295, 65666295, 65666295, 46367701, 46367701, 46367701, 46367701,
      19298595, 19298595, 19298595, 19298595, 19293315, 19293315, 19293315, 19293315,
      19288035, 19288035, 19288035, 19288035, 19288034, 19288034, 19288034, 19288034,
      0, 0, 0, 0, 364813, 364813, 364813, 364813>>,
    <<65666295, 65666295, 65666295, 65666295, 46367701, 46367701, 46367701, 46367701,
      19298595, 19298595, 19298595, 19298595, 19293315, 19293315, 19293315, 19293315,
      19288035, 19288035, 19288035, 19288035, 19288034, 19288034, 19288034, 19288034,
      0, 0, 0, 0, 364813, 364813, 364813, 364813>>,
    <<65301483, 65301483, 65301483, 65301483, 46732514, 46496324, 46234881, 46732514,
      19663407, 19431415, 19169972, 19663407, 19658128, 19426136, 19164693, 19658128,
      19652848, 19420857, 19159414, 19652848, 19652847, 19420856, 19159413, 19652847,
      364813, 364813, 364813, 364813, 0, 413250, 601294, 0>>,
    <<65301483, 65301483, 65301483, 65301483, 46496324, 46732514, 46002888, 46496324,
      19431415, 19663407, 18933782, 19431415, 19426136, 19658128, 18928502, 19426136,
      19420857, 19652848, 18923222, 19420857, 19420856, 19652847, 18923221, 19420856,
      364813, 364813, 364813, 364813, 413250, 0, 729626, 413250>>,
    <<65301483, 65301483, 65301483, 65301483, 46234881, 46002888, 46732514, 46234881,
      19169972, 18933782, 19663407, 19169972, 19164693, 18928502, 19658128, 19164693,
      19159414, 18923222, 19652848, 19159414, 19159413, 18923221, 19652847, 19159413,
      364813, 364813, 364813, 364813, 601294, 729626, 0, 601294>>,
    <<65301483, 65301483, 65301483, 65301483, 46732514, 46496324, 46234881, 46732514,
      19663407, 19431415, 19169972, 19663407, 19658128, 19426136, 19164693, 19658128,
      19652848, 19420857, 19159414, 19652848, 19652847, 19420856, 19159413, 19652847,
      364813, 364813, 364813, 364813, 0, 413250, 601294, 0>>
  >>

Ok(v)        == [raised |-> "none", msg |-> "", value |-> v]
Raise(e, m)  == [raised |-> e, msg |-> m, value |-> 0]

MinLat == Num(-90000000)
MaxLat == Num(90000000)
MinLng == Num(-180000000)
MaxLng == Num(180000000)

\* lines 41-54: the haversine formula
haversine(lat1, lng1, lat2, lng2) ==
  LET feet == HaversineFeet[GridIndex(lat1.num, lng1.num)]
                           [GridIndex(lat2.num, lng2.num)]
  IN  IF feet < 0 THEN Raise("ValueError", "math domain error")
      ELSE Ok(feet)

\* distance_in_feet with the bounds compared strictly
distance_in_feet_strict_bounds(lat1, lng1, lat2, lng2) ==
  IF \E i \in 1..4 :
        LET coord == <<lat1, lng1, lat2, lng2>>[i]
        IN  ~isinstance_number(coord) \/ math_isnan(coord)
  THEN Raise("ValueError", "Invalid coordinate")
  ELSE IF ~(FloatLt(MinLat, lat1) /\ FloatLt(lat1, MaxLat))
          \/ ~(FloatLt(MinLat, lat2) /\ FloatLt(lat2, MaxLat))
  THEN Raise("ValueError", "Latitude must be between -90 and 90 degrees")
  ELSE IF ~(FloatLt(MinLng, lng1) /\ FloatLt(lng1, MaxLng))
          \/ ~(FloatLt(MinLng, lng2) /\ FloatLt(lng2, MaxLng))
  THEN Raise("ValueError", "Longitude must be between -180 and 180 degrees")
  ELSE haversine(lat1, lng1, lat2, lng2)

\* distance_in_feet checking the range of the second point only
distance_in_feet_first_point_unchecked(lat1, lng1, lat2, lng2) ==
  IF \E i \in 1..4 :
        LET coord == <<lat1, lng1, lat2, lng2>>[i]
        IN  ~isinstance_number(coord) \/ math_isnan(coord)
  THEN Raise("ValueError", "Invalid coordinate")
  ELSE IF ~(FloatLe(MinLat, lat2) /\ FloatLe(lat2, MaxLat))
  THEN Raise("ValueError", "Latitude must be between -90 and 90 degrees")
  ELSE IF ~(FloatLe(MinLng, lng2) /\ FloatLe(lng2, MaxLng))
  THEN Raise("ValueError", "Longitude must be between -180 and 180 degrees")
  ELSE haversine(lat1, lng1, lat2, lng2)

distance_in_feet(lat1, lng1, lat2, lng2) ==
  IF \E i \in 1..4 :
        LET coord == <<lat1, lng1, lat2, lng2>>[i]
        IN  ~isinstance_number(coord) \/ math_isnan(coord)
  THEN Raise("ValueError", "Invalid coordinate")
  ELSE IF ~(FloatLe(MinLat, lat1) /\ FloatLe(lat1, MaxLat))
          \/ ~(FloatLe(MinLat, lat2) /\ FloatLe(lat2, MaxLat))
  THEN Raise("ValueError", "Latitude must be between -90 and 90 degrees")
  ELSE IF ~(FloatLe(MinLng, lng1) /\ FloatLe(lng1, MaxLng))
          \/ ~(FloatLe(MinLng, lng2) /\ FloatLe(lng2, MaxLng))
  THEN Raise("ValueError", "Longitude must be between -180 and 180 degrees")
  ELSE haversine(lat1, lng1, lat2, lng2)

(* ---------------------------------------------------------------------- *)
(* WellSpacingAnalyzer                                                    *)
(* A DataFrame is the sequence of its rows, a row a record of its         *)
(* columns; iterrows() visits the rows in sequence order.                 *)
(* ---------------------------------------------------------------------- *)
\* PyMin returning the larger argument
PyMax(a, b) == IF FloatLt(b, a) THEN a ELSE b

\* Python's min(a, b): b when b < a, else a
PyMin(a, b) == IF FloatLt(b, a) THEN b ELSE a

\* SelectHorizontal keeping every row
SelectHorizontal_all(df) == df

\* df[df["IsHorizontalWell"]]
SelectHorizontal(df) == SelectSeq(df, LAMBDA row : row.IsHorizontalWell)

\* AssignColumn aligning the values from the last row up
AssignColumn_reversed(df, col, values) ==
  [i \in 1..Len(df) |-> df[i] @@ (col :> values[Len(df) + 1 - i])]

\* df[col] = pd.Series(values, index=df.index)
AssignColumn(df, col, values) ==
  [i \in 1..Len(df) |-> df[i] @@ (col :> values[i])]

DistanceBetween(well, other_well) ==
  distance_in_feet(well.SHLLatitude, well.SHLLongitude,
                   other_well.SHLLatitude, other_well.SHLLongitude)

\* nearest_step keeping the latest distance instead of the smallest
nearest_step_latest(well, other_well, min_distance) ==
  IF pd_notna(other_well.SHLLatitude) /\ pd_notna(other_well.SHLLongitude)
  THEN LET dist == DistanceBetween(well, other_well)
       IN  IF dist.raised = "ValueError"
           THEN Ok(min_distance)
           ELSE Ok(Num(dist.value))
  ELSE Ok(min_distance)

\* lines 83-95: one candidate of the minimum-distance scan
nearest_step(well, other_well, min_distance) ==
  IF pd_notna(other_well.SHLLatitude) /\ pd_notna(other_well.SHLLongitude)
  THEN LET dist == DistanceBetween(well, other_well)
       IN  IF dist.raised = "ValueError"       \* except ValueError: continue
           THEN Ok(min_distance)
           ELSE Ok(PyMin(min_distance, Num(dist.value)))
  ELSE Ok(min_distance)

\* lines 82-95: the loop over the candidates; an exception the body lets
\* through ends the loop
RECURSIVE nearest_scan(_, _, _, _)
nearest_scan(well, others, i, acc) ==
  IF i > Len(others) THEN Ok(acc)
  ELSE LET r == nearest_step(well, others[i], acc)
       IN  IF r.raised # "none" THEN r
           ELSE nearest_scan(well, others, i + 1, r.value)

\* nearest_horizontal_distance appending 0 for a well without coordinates
nearest_horizontal_distance_zero_default(well, horizontals) ==
  IF pd_isna(well.SHLLatitude) \/ pd_isna(well.SHLLongitude)
  THEN Ok(Num(0))
  ELSE
    LET horizontal_candidates ==
          IF well.IsHorizontalWell
          THEN SelectSeq(horizontals, LAMBDA h : h.API10 # well.API10)
          ELSE horizontals
    IN  IF Len(horizontal_candidates) = 0 THEN Ok(NaN)
        ELSE
          LET m == nearest_scan(well, horizontal_candidates, 1, PosInf)
          IN  IF m.raised # "none" THEN m
              ELSE Ok(IF m.value # PosInf THEN m.value ELSE NaN)

\* nearest_horizontal_distance without the exclusion of the well itself
nearest_horizontal_distance_with_self(well, horizontals) ==
  IF pd_isna(well.SHLLatitude) \/ pd_isna(well.SHLLongitude) THEN Ok(NaN)
  ELSE
    IF Len(horizontals) = 0 THEN Ok(NaN)
    ELSE
      LET m == nearest_scan(well, horizontals, 1, PosInf)
      IN  IF m.raised # "none" THEN m
          ELSE Ok(IF m.value # PosInf THEN m.value ELSE NaN)

\* lines 66-97: the body of the loop over self.wells_df, for one well
nearest_horizontal_distance(well, horizontals) ==
  IF pd_isna(well.SHLLatitude) \/ pd_isna(well.SHLLongitude) THEN Ok(NaN)
  ELSE
    LET horizontal_candidates ==
          IF well.IsHorizontalWell
          THEN SelectSeq(horizontals, LAMBDA h : h.API10 # well.API10)
          ELSE horizontals
    IN  IF Len(horizontal_candidates) = 0 THEN Ok(NaN)
        ELSE
          LET m == nearest_scan(well, horizontal_candidates, 1, PosInf)
          IN  IF m.raised # "none" THEN m
              ELSE Ok(IF m.value # PosInf THEN m.value ELSE NaN)

\* lines 63-97: the loop over self.wells_df, one value appended per well
RECURSIVE nearest_loop(_, _, _, _)
nearest_loop(df, horizontals, i, out) ==
  IF i > Len(df) THEN Ok(out)
  ELSE LET r == nearest_horizontal_distance(df[i], horizontals)
       IN  IF r.raised # "none" THEN r
           ELSE nearest_loop(df, horizontals, i + 1, Append(out, r.value))

calculate_nearest_horizontal_distance(df, horizontals) ==
  nearest_loop(df, horizontals, 1, <<>>)

\* radius_step with dist < radius_feet
radius_step_strict(well, other_well, radius_feet, count) ==
  IF well.API10 = other_well.API10 THEN Ok(count)
  ELSE IF pd_notna(other_well.SHLLatitude)
          /\ pd_notna(other_well.SHLLongitude)
  THEN LET dist == DistanceBetween(well, other_well)
       IN  IF dist.raised = "ValueError"
           THEN Ok(count)
           ELSE Ok(IF dist.value < radius_feet THEN count + 1 ELSE count)
  ELSE Ok(count)

\* radius_step counting the wells at radius_feet or farther
radius_step_beyond(well, other_well, radius_feet, count) ==
  IF well.API10 = other_well.API10 THEN Ok(count)
  ELSE IF pd_notna(other_well.SHLLatitude)
          /\ pd_notna(other_well.SHLLongitude)
  THEN LET dist == DistanceBetween(well, other_well)
       IN  IF dist.raised = "ValueError"
           THEN Ok(count)
           ELSE Ok(IF dist.value >= radius_feet THEN count + 1 ELSE count)
  ELSE Ok(count)

\* radius_step without the skip of the well itself
radius_step_with_self(well, other_well, radius_feet, count) ==
  IF pd_notna(other_well.SHLLatitude) /\ pd_notna(other_well.SHLLongitude)
  THEN LET dist == DistanceBetween(well, other_well)
       IN  IF dist.raised = "ValueError"
           THEN Ok(count)
           ELSE Ok(IF dist.value <= radius_feet THEN count + 1 ELSE count)
  ELSE Ok(count)

\* lines 112-129: one horizontal well of the radius count
radius_step(well, other_well, radius_feet, count) ==
  IF well.API10 = other_well.API10 THEN Ok(count)
  ELSE IF pd_notna(other_well.SHLLatitude)
          /\ pd_notna(other_well.SHLLongitude)
  THEN LET dist == DistanceBetween(well, other_well)
       IN  IF dist.raised = "ValueError"       \* except ValueError: continue
           THEN Ok(count)
           ELSE Ok(IF dist.value <= radius_feet THEN count + 1 ELSE count)
  ELSE Ok(count)

\* lines 111-129: the loop over self.horizontal_wells
RECURSIVE radius_scan(_, _, _, _, _)
radius_scan(well, others, radius_feet, i, acc) ==
  IF i > Len(others) THEN Ok(acc)
  ELSE LET r == radius_step(well, others[i], radius_feet, acc)
       IN  IF r.raised # "none" THEN r
           ELSE radius_scan(well, others, radius_feet, i + 1, r.value)

\* lines 106-131, for one well
wells_within_radius(well, horizontals, radius_feet) ==
  IF pd_isna(well.SHLLatitude) \/ pd_isna(well.SHLLongitude) THEN Ok(0)
  ELSE radius_scan(well, horizontals, radius_feet, 1, 0)

\* lines 103-131: the loop over self.wells_df, one value appended per well
RECURSIVE radius_loop(_, _, _, _, _)
radius_loop(df, horizontals, radius_feet, i, out) ==
  IF i > Len(df) THEN Ok(out)
  ELSE LET r == wells_within_radius(df[i], horizontals, radius_feet)
       IN  IF r.raised # "none" THEN r
           ELSE radius_loop(df, horizontals, radius_feet, i + 1,
                            Append(out, r.value))

count_wells_within_radius(df, horizontals, radius_feet) ==
  radius_loop(df, horizontals, radius_feet, 1, <<>>)

\* distances_step taking a candidate without coordinates as one at distance 0
distances_step_absent_counted(well, other_well, distances) ==
  IF well.API10 = other_well.API10 THEN Ok(distances)
  ELSE IF pd_notna(other_well.SHLLatitude)
          /\ pd_notna(other_well.SHLLongitude)
  THEN LET dist == DistanceBetween(well, other_well)
       IN  IF dist.raised = "ValueError"
           THEN Ok(distances)
           ELSE Ok(Append(distances, dist.value))
  ELSE Ok(Append(distances, 0))

\* lines 146-162: one horizontal well of the distance list
distances_step(well, other_well, distances) ==
  IF well.API10 = other_well.API10 THEN Ok(distances)
  ELSE IF pd_notna(other_well.SHLLatitude)
          /\ pd_notna(other_well.SHLLongitude)
  THEN LET dist == DistanceBetween(well, other_well)
       IN  IF dist.raised = "ValueError"       \* except ValueError: continue
           THEN Ok(distances)
           ELSE Ok(Append(distances, dist.value))
  ELSE Ok(distances)

\* lines 145-162: the loop over self.horizontal_wells
RECURSIVE distances_scan(_, _, _, _)
distances_scan(well, others, i, acc) ==
  IF i > Len(others) THEN Ok(acc)
  ELSE LET r == distances_step(well, others[i], acc)
       IN  IF r.raised # "none" THEN r
           ELSE distances_scan(well, others, i + 1, r.value)

\* list.sort() on a list of integers
RECURSIVE Insert(_, _)
Insert(sorted, v) ==
  IF sorted = <<>> THEN <<v>>
  ELSE IF v < Head(sorted) THEN <<v>> \o sorted
  ELSE <<Head(sorted)>> \o Insert(Tail(sorted), v)

RECURSIVE Sort(_)
Sort(s) == IF s = <<>> THEN <<>> ELSE Insert(Sort(Tail(s)), Head(s))

RECURSIVE Sum(_)
Sum(s) == IF s = <<>> THEN 0 ELSE Head(s) + Sum(Tail(s))

\* np.mean of a non-empty list of integers
np_mean(s) == Frac(Sum(s), Len(s))

\* average_distance_to_k_nearest without distances.sort()
average_distance_to_k_nearest_unsorted(well, horizontals, k) ==
  IF pd_isna(well.SHLLatitude) \/ pd_isna(well.SHLLongitude) THEN Ok(NaN)
  ELSE
    LET d == distances_scan(well, horizontals, 1, <<>>)
    IN  IF d.raised # "none" THEN d
        ELSE IF Len(d.value) >= k
        THEN Ok(np_mean(SubSeq(d.value, 1, k)))
        ELSE Ok(NaN)

\* lines 140-169, for one well
average_distance_to_k_nearest(well, horizontals, k) ==
  IF pd_isna(well.SHLLatitude) \/ pd_isna(well.SHLLongitude) THEN Ok(NaN)
  ELSE
    LET d == distances_scan(well, horizontals, 1, <<>>)
    IN  IF d.raised # "none" THEN d
        ELSE IF Len(d.value) >= k
        THEN Ok(np_mean(SubSeq(Sort(d.value), 1, k)))
        ELSE Ok(NaN)

\* lines 137-169: the loop over self.wells_df, one value appended per well
RECURSIVE average_loop(_, _, _, _, _)
average_loop(df, horizontals, k, i, out) ==
  IF i > Len(df) THEN Ok(out)
  ELSE LET r == average_distance_to_k_nearest(df[i], horizontals, k)
       IN  IF r.raised # "none" THEN r
           ELSE average_loop(df, horizontals, k, i + 1, Append(out, r.value))

average_distance_to_k_nearest_all(df, horizontals, k) ==
  average_loop(df, horizontals, k, 1, <<>>)

radius_miles == 2
feet_per_mile == 5280

\* area_sq_miles = np.pi * radius_miles**2, as a multiple of pi: a density
\* score Frac(n, d) stands for n / (d * pi) wells per square mile
area_sq_miles_over_pi == radius_miles * radius_miles

\* density_step without the except clause
density_step_uncaught(well, other_well, radius_feet, count) ==
  IF well.API10 = other_well.API10 THEN Ok(count)
  ELSE IF pd_notna(other_well.SHLLatitude)
          /\ pd_notna(other_well.SHLLongitude)
  THEN LET dist == DistanceBetween(well, other_well)
       IN  IF dist.raised # "none"
           THEN dist
           ELSE Ok(IF dist.value <= radius_feet THEN count + 1 ELSE count)
  ELSE Ok(count)

\* lines 191-208: one well of the density count
density_step(well, other_well, radius_feet, count) ==
  IF well.API10 = other_well.API10 THEN Ok(count)
  ELSE IF pd_notna(other_well.SHLLatitude)
          /\ pd_notna(other_well.SHLLongitude)
  THEN LET dist == DistanceBetween(well, other_well)
       IN  IF dist.raised = "ValueError"       \* except ValueError: continue
           THEN Ok(count)
           ELSE Ok(IF dist.value <= radius_feet THEN count + 1 ELSE count)
  ELSE Ok(count)

\* lines 190-208: the loop over self.wells_df
RECURSIVE density_scan(_, _, _, _, _)
density_scan(well, others, radius_feet, i, acc) ==
  IF i > Len(others) THEN Ok(acc)
  ELSE LET r == density_step(well, others[i], radius_feet, acc)
       IN  IF r.raised # "none" THEN r
           ELSE density_scan(well, others, radius_feet, i + 1, r.value)

\* well_density_score scanning the horizontal wells only
well_density_score_horizontal_only(well, df) ==
  IF pd_isna(well.SHLLatitude) \/ pd_isna(well.SHLLongitude) THEN Ok(Num(0))
  ELSE
    LET c == density_scan(well, SelectHorizontal(df),
                          radius_miles * feet_per_mile, 1, 0)
    IN  IF c.raised # "none" THEN c
        ELSE Ok(Frac(c.value, area_sq_miles_over_pi))

\* lines 185-211, for one well
well_density_score(well, df) ==
  IF pd_isna(well.SHLLatitude) \/ pd_isna(well.SHLLongitude) THEN Ok(Num(0))
  ELSE
    LET c == density_scan(well, df, radius_miles * feet_per_mile, 1, 0)
    IN  IF c.raised # "none" THEN c
        ELSE Ok(Frac(c.value, area_sq_miles_over_pi))

\* lines 179-211: the loop over self.wells_df, one value appended per well
RECURSIVE density_loop(_, _, _)
density_loop(df, i, out) ==
  IF i > Len(df) THEN Ok(out)
  ELSE LET r == well_density_score(df[i], df)
       IN  IF r.raised # "none" THEN r
           ELSE density_loop(df, i + 1, Append(out, r.value))

calculate_well_density_score(df) == density_loop(df, 1, <<>>)

(* ---------------------------------------------------------------------- *)
(* WellsProcessor, ProductionProcessor (src/src/data_processors.py)       *)
(*                                                                        *)
(* A row of the wells file is taken after the cleaning of lines 36-57,    *)
(* with the columns API10, Latitude, Longitude and IsHorizontalWell; the  *)
(* columns State, Operator and PLSS are carried along unread and left     *)
(* out.  A production record has API10, Oil, Gas and Water.               *)
(* ---------------------------------------------------------------------- *)
\* the API10 values of the wells, in ascending order
API10s == <<"4301300001", "4301300002", "4301300003", "4301300004",
            "4301300005", "4301300006", "4301300007", "4301300008">>

\* config.data_limits
max_lateral_length == 22000
min_lateral_length == 2000
monthly_production_limits ==
  [Oil |-> 500000, Gas |-> 5000000, Water |-> 20000000]

\* df[df["API10"].isin(ids)]
FilterAPI10(df, ids) == SelectSeq(df, LAMBDA row : row.API10 \in ids)

\* the set of values of the API10 column
API10Of(df) == {df[i].API10 : i \in 1..Len(df)}

\* pd.merge(left, right, on="API10", how="left"): each left row, in order,
\* once for every right row of its API10, or once with the right columns
\* absent when there is none
RECURSIVE merge_left(_, _, _)
merge_left(left, right, absent) ==
  IF left = <<>> THEN <<>>
  ELSE LET row     == Head(left)
           matches == FilterAPI10(right, {row.API10})
           joined  == IF matches = <<>> THEN <<row @@ absent>>
                      ELSE [j \in 1..Len(matches) |-> row @@ matches[j]]
       IN  joined \o merge_left(Tail(left), right, absent)

\* WellsProcessor.load_bottom_hole_data, lines 99-103
load_bottom_hole_data(wells, bottom_holes) ==
  FilterAPI10(bottom_holes, API10Of(wells))

\* WellsProcessor._calculate_lateral_length_row: None becomes NaN in the
\* column
calculate_lateral_length_row(row) ==
  IF pd_notna(row.SHLLatitude) /\ pd_notna(row.SHLLongitude)
     /\ pd_notna(row.BHLatitude) /\ pd_notna(row.BHLongitude)
  THEN LET dist == distance_in_feet(row.SHLLatitude, row.SHLLongitude,
                                    row.BHLatitude, row.BHLongitude)
       IN  IF dist.raised = "ValueError" THEN NaN ELSE Num(dist.value)
  ELSE NaN

\* WellsProcessor._apply_lateral_length_filters, for one row; a comparison
\* with NaN is false
apply_lateral_length_filters(row) ==
  LET length == row.LateralLength
      long   == FloatLt(Num(max_lateral_length), length)
      short  == row.IsHorizontalWell
                /\ FloatLt(length, Num(min_lateral_length))
  IN  [row EXCEPT !.LateralLength = IF long \/ short THEN NaN ELSE length]

\* WellsProcessor.merge_and_calculate_lateral_length
merge_and_calculate_lateral_length(wells, bottom_holes) ==
  LET wells_renamed ==
        [i \in 1..Len(wells) |->
           [API10 |-> wells[i].API10,
            IsHorizontalWell |-> wells[i].IsHorizontalWell,
            SHLLatitude |-> wells[i].Latitude,
            SHLLongitude |-> wells[i].Longitude]]
      bottom_hole_renamed ==
        [i \in 1..Len(bottom_holes) |->
           [API10 |-> bottom_holes[i].API10,
            BHLatitude |-> bottom_holes[i].Latitude,
            BHLongitude |-> bottom_holes[i].Longitude]]
      merged == merge_left(wells_renamed, bottom_hole_renamed,
                           [BHLatitude |-> NaN, BHLongitude |-> NaN])
      with_length ==
        [i \in 1..Len(merged) |->
           merged[i]
             @@ [LateralLength |-> calculate_lateral_length_row(merged[i])]]
  IN  [i \in 1..Len(with_length) |->
         apply_lateral_length_filters(with_length[i])]

\* ProductionProcessor._apply_production_filters, one product of one record
apply_production_filter(value, max_production) ==
  IF FloatLt(value, Num(0)) \/ FloatLt(Num(max_production), value)
  THEN NaN ELSE value

\* ProductionProcessor.load_and_process_production, lines 209-220
load_and_process_production(records, valid_api10s) ==
  LET valid == FilterAPI10(records, valid_api10s)
  IN  [i \in 1..Len(valid) |->
         [API10 |-> valid[i].API10,
          Oil   |-> apply_production_filter(
                      valid[i].Oil, monthly_production_limits.Oil),
          Gas   |-> apply_production_filter(
                      valid[i].Gas, monthly_production_limits.Gas),
          Water |-> apply_production_filter(
                      valid[i].Water, monthly_production_limits.Water)]]

\* a + b on finite floats
FloatAdd(a, b) == Frac(a.num * b.den + b.num * a.den, a.den * b.den)

\* Series.sum(): the NaN values are skipped, the sum of none is 0
RECURSIVE series_sum(_)
series_sum(s) ==
  IF s = <<>> THEN Num(0)
  ELSE IF pd_isna(Head(s)) THEN series_sum(Tail(s))
  ELSE FloatAdd(Head(s), series_sum(Tail(s)))

\* Series.mean(): the NaN values are skipped, the mean of none is NaN
series_mean(s) ==
  LET present == SelectSeq(s, pd_notna)
      total   == series_sum(present)
  IN  IF present = <<>> THEN NaN
      ELSE Frac(total.num, total.den * Len(present))

\* the column col of df
Column(df, col) == [i \in 1..Len(df) |-> df[i][col]]

\* ProductionProcessor.calculate_cumulative_production: one row for each
\* API10 of the records, in ascending order of API10
RECURSIVE cumulative_groups(_, _)
cumulative_groups(production, i) ==
  IF i > Len(API10s) THEN <<>>
  ELSE LET group == FilterAPI10(production, {API10s[i]})
           rest  == cumulative_groups(production, i + 1)
       IN  IF group = <<>> THEN rest
           ELSE << [API10 |-> API10s[i],
                    CumulativeOil_Calculated
                      |-> series_sum(Column(group, "Oil")),
                    CumulativeGas_Calculated
                      |-> series_sum(Column(group, "Gas")),
                    CumulativeWater_Calculated
                      |-> series_sum(Column(group, "Water"))] >> \o rest

calculate_cumulative_production(production) ==
  cumulative_groups(production, 1)

(* ---------------------------------------------------------------------- *)
(* The operations                                                         *)
(* ---------------------------------------------------------------------- *)
\* WellSpacingAnalyzer.__init__ keeping the caller's frame instead of a copy
Construct_without_copy ==
  /\ pc = "new"
  /\ wells_df' = input_df
  /\ aliased' = TRUE
  /\ horizontal_wells' = SelectHorizontal(input_df)
  /\ pc' = "constructed"
  /\ UNCHANGED <<input_df, returned, exception, args, outcome, run_vars>>

\* WellSpacingAnalyzer.__init__: self.wells_df is a copy of the caller's
\* frame (line 29), self.horizontal_wells a copy of its horizontal rows
Construct ==
  /\ pc = "new"
  /\ wells_df' = input_df
  /\ aliased' = FALSE
  /\ horizontal_wells' = SelectHorizontal(input_df)
  /\ pc' = "constructed"
  /\ UNCHANGED <<input_df, returned, exception, args, outcome, run_vars>>

\* WellSpacingAnalyzer.add_spacing_features: the four columns are computed
\* and assigned one after the other; an exception leaves the columns
\* assigned so far and nothing is returned.  The columns are assigned in
\* place: a frame that is the same object as self.wells_df gets them too.
add_spacing_features ==
  /\ pc = "constructed"
  /\ LET Fail(df, f) == /\ wells_df' = df
                        /\ exception' = f.raised
                        /\ returned' = returned
                        /\ pc' = "raised"
     IN
     \E f1 \in {calculate_nearest_horizontal_distance(wells_df,
                                                      horizontal_wells)} :
     IF f1.raised # "none" THEN Fail(wells_df, f1) ELSE
     \E df1 \in {AssignColumn(wells_df, "DistanceToNearestHorizontalWell",
                              f1.value)} :
     \E f2 \in {count_wells_within_radius(df1, horizontal_wells, 5280)} :
     IF f2.raised # "none" THEN Fail(df1, f2) ELSE
     \E df2 \in {AssignColumn(df1, "HorizontalWellsWithin1Mile", f2.value)} :
     \E f3 \in {average_distance_to_k_nearest_all(df2, horizontal_wells, 3)} :
     IF f3.raised # "none" THEN Fail(df2, f3) ELSE
     \E df3 \in {AssignColumn(df2, "AvgDistanceTo3NearestHorizontal",
                              f3.value)} :
     \E f4 \in {calculate_well_density_score(df3)} :
     IF f4.raised # "none" THEN Fail(df3, f4) ELSE
     \E df4 \in {AssignColumn(df3, "WellDensityScore", f4.value)} :
       /\ wells_df' = df4
       /\ returned' = df4
       /\ exception' = "none"
       /\ pc' = "done"
  /\ input_df' = IF aliased THEN wells_df' ELSE input_df
  /\ UNCHANGED <<horizontal_wells, args, outcome, aliased, run_vars>>

\* one call of distance_in_feet
CallDistance ==
  /\ pc = "call"
  /\ outcome' = distance_in_feet(args[1], args[2], args[3], args[4])
  /\ pc' = "ret"
  /\ UNCHANGED <<input_df, wells_df, horizontal_wells, returned, exception,
                 args, aliased, run_vars>>

\* the largest radius asked for, in miles
MaxRadiusMiles == 3

\* a call of WellSpacingAnalyzer._count_wells_within_radius(radius_miles) on
\* a constructed analyzer: line 110 converts the radius to feet, the list of
\* counts is returned and no attribute is assigned
CallCountWithinRadius ==
  /\ pc = "constructed"
  /\ \E miles \in 0..MaxRadiusMiles :
       /\ args' = <<miles>>
       /\ outcome' = count_wells_within_radius(wells_df, horizontal_wells,
                                               miles * feet_per_mile)
  /\ pc' = "counted"
  /\ UNCHANGED <<input_df, wells_df, horizontal_wells, returned, exception,
                 aliased, run_vars>>

(* ---------------------------------------------------------------------- *)
(* ETLPipeline.run (src/src/pipeline.py): one action for each step of the *)
(* try block, the load step split at its three calls of the database.     *)
(* Any step may raise: a file that cannot be read, a database that cannot *)
(* be reached, memory.                                                    *)
(* ---------------------------------------------------------------------- *)
\* WellSpacingAnalyzer(df).add_spacing_features() as one call
with_spacing_features(df) ==
  LET hz == SelectHorizontal(df)
      f1 == calculate_nearest_horizontal_distance(df, hz)
      f2 == count_wells_within_radius(df, hz, 5280)
      f3 == average_distance_to_k_nearest_all(df, hz, 3)
      f4 == calculate_well_density_score(df)
  IN  IF f1.raised # "none" THEN f1
      ELSE IF f2.raised # "none" THEN f2
      ELSE IF f3.raised # "none" THEN f3
      ELSE IF f4.raised # "none" THEN f4
      ELSE Ok(AssignColumn(
                AssignColumn(
                  AssignColumn(
                    AssignColumn(df, "DistanceToNearestHorizontalWell",
                                 f1.value),
                    "HorizontalWellsWithin1Mile", f2.value),
                  "AvgDistanceTo3NearestHorizontal", f3.value),
                "WellDensityScore", f4.value))

\* ETLPipeline._calculate_statistics
calculate_statistics(df) ==
  LET horizontal == SelectHorizontal(df)
      produced   ==
        SelectSeq(df, LAMBDA row : pd_notna(row.CumulativeOil_Calculated))
  IN  [total_wells |-> Num(Len(df)),
       horizontal_wells |-> Num(Len(horizontal)),
       avg_lateral_length_horizontal
         |-> series_mean(Column(horizontal, "LateralLength")),
       wells_with_production |-> Num(Len(produced)),
       total_cumulative_oil
         |-> series_sum(Column(df, "CumulativeOil_Calculated")),
       total_cumulative_gas
         |-> series_sum(Column(df, "CumulativeGas_Calculated")),
       total_cumulative_water
         |-> series_sum(Column(df, "CumulativeWater_Calculated")),
       avg_well_density |-> series_mean(Column(df, "WellDensityScore")),
       avg_distance_to_nearest_horizontal
         |-> series_mean(Column(df, "DistanceToNearestHorizontalWell"))]

\* the variables of the caller of WellSpacingAnalyzer and of distance_in_feet
analyzer_vars == <<input_df, wells_df, horizontal_wells, returned, exception,
                   args, outcome, aliased>>

\* run's except clause returning self.stats instead of raising
run_except_swallowed ==
  /\ pc' = "failed"
  /\ run_result' = "returned"
  /\ UNCHANGED <<analyzer_vars, wells_file, bottom_hole_file,
                 production_file, merged_df, production_df, wells_final,
                 engine, tables, stats, completed>>

\* lines 65-67: the exception of a step is logged and raised again
run_except ==
  /\ pc' = "failed"
  /\ run_result' = "raised"
  /\ UNCHANGED <<analyzer_vars, wells_file, bottom_hole_file,
                 production_file, merged_df, production_df, wells_final,
                 engine, tables, stats, completed>>

\* step 1, ETLPipeline._process_wells_data
process_wells_data ==
  /\ pc = "start"
  /\ \/ /\ merged_df' = merge_and_calculate_lateral_length(
                           wells_file,
                           load_bottom_hole_data(wells_file, bottom_hole_file))
        /\ completed' = Append(completed, "process_wells_data")
        /\ pc' = "wells"
        /\ UNCHANGED <<analyzer_vars, wells_file, bottom_hole_file,
                       production_file, production_df, wells_final, engine,
                       tables, stats, run_result>>
     \/ run_except

\* step 2, ETLPipeline._process_production_data
process_production_data ==
  /\ pc = "wells"
  /\ \/ /\ production_df' = load_and_process_production(
                               production_file, API10Of(merged_df))
        /\ completed' = Append(completed, "process_production_data")
        /\ pc' = "production"
        /\ UNCHANGED <<analyzer_vars, wells_file, bottom_hole_file,
                       production_file, merged_df, wells_final, engine,
                       tables, stats, run_result>>
     \/ run_except

\* step 3, ETLPipeline._merge_cumulative_production
merge_cumulative_production ==
  /\ pc = "production"
  /\ \/ /\ wells_final' =
             merge_left(merged_df,
                        calculate_cumulative_production(production_df),
                        [CumulativeOil_Calculated |-> NaN,
                         CumulativeGas_Calculated |-> NaN,
                         CumulativeWater_Calculated |-> NaN])
        /\ completed' = Append(completed, "merge_cumulative_production")
        /\ pc' = "merged"
        /\ UNCHANGED <<analyzer_vars, wells_file, bottom_hole_file,
                       production_file, merged_df, production_df, engine,
                       tables, stats, run_result>>
     \/ run_except

\* step 4, ETLPipeline._add_well_spacing_features: the frame of step 3 is
\* handed to a new WellSpacingAnalyzer, whose result replaces it
add_well_spacing_features ==
  /\ pc = "merged"
  /\ \/ \E spaced \in {with_spacing_features(wells_final)} :
          /\ spaced.raised = "none"
          /\ input_df' = wells_final
          /\ horizontal_wells' = SelectHorizontal(wells_final)
          /\ aliased' = FALSE
          /\ wells_df' = spaced.value
          /\ returned' = spaced.value
          /\ wells_final' = spaced.value
          /\ completed' = Append(completed, "add_well_spacing_features")
          /\ pc' = "spaced"
          /\ UNCHANGED <<exception, args, outcome, wells_file,
                         bottom_hole_file, production_file, merged_df,
                         production_df, engine, tables, stats, run_result>>
     \/ run_except

\* step 5, ETLPipeline._load_to_database, line 124: DatabaseLoader.connect
connect ==
  /\ pc = "spaced"
  /\ \/ /\ engine' = TRUE
        /\ pc' = "connected"
        /\ UNCHANGED <<analyzer_vars, wells_file, bottom_hole_file,
                       production_file, merged_df, production_df, wells_final,
                       tables, stats, completed, run_result>>
     \/ run_except

\* step 5, line 127: DatabaseLoader.load_data(wells_df, "Wells")
load_wells ==
  /\ pc = "connected"
  /\ \/ /\ tables' = ("Wells" :> wells_final) @@ tables
        /\ pc' = "wells_loaded"
        /\ UNCHANGED <<analyzer_vars, wells_file, bottom_hole_file,
                       production_file, merged_df, production_df, wells_final,
                       engine, stats, completed, run_result>>
     \/ run_except

\* step 5, line 130: DatabaseLoader.load_data(production_df, "Production")
load_production ==
  /\ pc = "wells_loaded"
  /\ \/ /\ tables' = ("Production" :> production_df) @@ tables
        /\ completed' = Append(completed, "load_to_database")
        /\ pc' = "loaded"
        /\ UNCHANGED <<analyzer_vars, wells_file, bottom_hole_file,
                       production_file, merged_df, production_df, wells_final,
                       engine, stats, run_result>>
     \/ run_except

\* step 6 and the return of self.stats, lines 60-63
return_statistics ==
  /\ pc = "loaded"
  /\ \/ /\ stats' = calculate_statistics(wells_final)
        /\ completed' = Append(completed, "calculate_statistics")
        /\ run_result' = "returned"
        /\ pc' = "returned"
        /\ UNCHANGED <<analyzer_vars, wells_file, bottom_hole_file,
                       production_file, merged_df, production_df, wells_final,
                       engine, tables>>
     \/ run_except

(* ---------------------------------------------------------------------- *)
(* The populations and arguments explored                                 *)
(* ---------------------------------------------------------------------- *)
MaxWells == 3
MaxField == 5
MaxCounted == 4
MaxPermuted == 4
MaxFileWells == 2
MaxBottomHoles == 2
MaxRecords == 2

BaseLat == Num(37100000)
BaseLng == Num(-111000000)

\* surface hole locations: the base point, points 5280, 10560 and 10561
\* feet north of it, its antipode, a missing latitude, a missing longitude
\* and a latitude out of range
Locations ==
  { <<BaseLat, BaseLng>>,
    <<Num(37114472), BaseLng>>,
    <<Num(37128945), BaseLng>>,
    <<Num(37128948), BaseLng>>,
    <<Num(-37100000), Num(69000000)>>,
    <<NaN, BaseLng>>,
    <<BaseLat, NaN>>,
    <<Num(91000000), BaseLng>> }

Well(id, loc, horizontal) ==
  [API10 |-> id, SHLLatitude |-> loc[1], SHLLongitude |-> loc[2],
   IsHorizontalWell |-> horizontal]

\* the wells of a crowded field: mostly horizontal wells
FieldChoices ==
  { <<<<BaseLat, BaseLng>>, FALSE>>,
    <<<<BaseLat, BaseLng>>, TRUE>>,
    <<<<Num(37114472), BaseLng>>, TRUE>>,
    <<<<Num(37128948), BaseLng>>, TRUE>>,
    <<<<NaN, BaseLng>>, TRUE>>,
    <<<<Num(91000000), BaseLng>>, TRUE>> }

Idle ==
  /\ wells_df = <<>>
  /\ horizontal_wells = <<>>
  /\ returned = <<>>
  /\ exception = "none"
  /\ aliased = FALSE

\* no pipeline run: no files read, nothing loaded
NoRun ==
  /\ wells_file = <<>>
  /\ bottom_hole_file = <<>>
  /\ production_file = <<>>
  /\ merged_df = <<>>
  /\ production_df = <<>>
  /\ wells_final = <<>>
  /\ engine = FALSE
  /\ tables = <<>>
  /\ stats = <<>>
  /\ completed = <<>>
  /\ run_result = "running"

\* up to MaxWells wells at any location, horizontal or not; the merge with
\* the bottom hole locations may have repeated a well, so the last row may
\* carry the API10 of the first
Init ==
  /\ \E n \in 0..MaxWells, dup \in BOOLEAN :
       \E loc \in [1..n -> Locations], hz \in [1..n -> BOOLEAN] :
          input_df = [i \in 1..n |->
                        Well(IF dup /\ i = n THEN API10s[1] ELSE API10s[i],
                             loc[i], hz[i])]
  /\ Idle
  /\ NoRun
  /\ pc = "new"
  /\ args = <<>>
  /\ outcome = Ok(0)

\* up to MaxField wells with distinct API10
InitField ==
  /\ \E n \in 0..MaxField :
       \E w \in [1..n -> FieldChoices] :
          input_df = [i \in 1..n |-> Well(API10s[i], w[i][1], w[i][2])]
  /\ Idle
  /\ NoRun
  /\ pc = "new"
  /\ args = <<>>
  /\ outcome = Ok(0)

\* up to MaxCounted wells with distinct API10, for the radius counts
InitRadius ==
  /\ \E n \in 0..MaxCounted :
       \E w \in [1..n -> FieldChoices] :
          input_df = [i \in 1..n |-> Well(API10s[i], w[i][1], w[i][2])]
  /\ Idle
  /\ NoRun
  /\ pc = "new"
  /\ args = <<>>
  /\ outcome = Ok(0)

\* the wells of the populations whose order is varied
PermutedChoices ==
  { <<<<BaseLat, BaseLng>>, FALSE>>,
    <<<<Num(37114472), BaseLng>>, TRUE>>,
    <<<<Num(37128948), BaseLng>>, TRUE>>,
    <<<<NaN, BaseLng>>, TRUE>> }

\* up to MaxPermuted wells with distinct API10
InitPermuted ==
  /\ \E n \in 0..MaxPermuted :
       \E w \in [1..n -> PermutedChoices] :
          input_df = [i \in 1..n |-> Well(API10s[i], w[i][1], w[i][2])]
  /\ Idle
  /\ NoRun
  /\ pc = "new"
  /\ args = <<>>
  /\ outcome = Ok(0)

\* the rows of the wells file: a horizontal well, one a mile north, and a
\* vertical well
WellRows ==
  { <<<<BaseLat, BaseLng>>, TRUE>>,
    <<<<Num(37128948), BaseLng>>, TRUE>>,
    <<<<BaseLat, BaseLng>>, FALSE>> }

\* the rows of the bottom hole file: two bottom holes of the first well, one
\* of them at the antipode of the base point, and one of a well that is not
\* in the wells file
BottomHoleRows ==
  { [API10 |-> API10s[1], Latitude |-> Num(37128948), Longitude |-> BaseLng],
    [API10 |-> API10s[1], Latitude |-> Num(-37100000),
     Longitude |-> Num(69000000)],
    [API10 |-> API10s[3], Latitude |-> BaseLat, Longitude |-> BaseLng] }

\* the production records: a month of the first well, a negative volume of
\* the second, a volume above the limit
ProductionRecords ==
  { [API10 |-> API10s[1], Oil |-> Num(100), Gas |-> Num(50),
     Water |-> Num(10)],
    [API10 |-> API10s[2], Oil |-> Num(-1), Gas |-> Num(50),
     Water |-> Num(10)],
    [API10 |-> API10s[1], Oil |-> Num(600000), Gas |-> Num(50),
     Water |-> NaN] }

\* the three input files: wells with distinct API10
InitPipeline ==
  /\ \E n \in 0..MaxFileWells :
       \E w \in [1..n -> WellRows] :
          wells_file = [i \in 1..n |->
                          [API10 |-> API10s[i], Latitude |-> w[i][1][1],
                           Longitude |-> w[i][1][2],
                           IsHorizontalWell |-> w[i][2]]]
  /\ \E n \in 0..MaxBottomHoles :
       bottom_hole_file \in [1..n -> BottomHoleRows]
  /\ \E n \in 0..MaxRecords :
       production_file \in [1..n -> ProductionRecords]
  /\ merged_df = <<>>
  /\ production_df = <<>>
  /\ wells_final = <<>>
  /\ engine = FALSE
  /\ tables = <<>>
  /\ stats = <<>>
  /\ completed = <<>>
  /\ run_result = "running"
  /\ input_df = <<>>
  /\ Idle
  /\ pc = "start"
  /\ args = <<>>
  /\ outcome = Ok(0)

LatArgs ==
  {None, NaN, PosInf, NegInf, Num(-91000000), Num(91000000)}
    \cup {Num(GridLat[i]) : i \in 1..Len(GridLat)}
LngArgs ==
  {None, NaN, PosInf, Num(-181000000), Num(181000000)}
    \cup {Num(GridLng[i]) : i \in 1..Len(GridLng)}

InitDistance ==
  /\ args \in LatArgs \X LngArgs \X LatArgs \X LngArgs
  /\ pc = "call"
  /\ input_df = <<>>
  /\ Idle
  /\ NoRun
  /\ outcome = Ok(0)

Next == Construct \/ add_spacing_features
NextDistance == CallDistance
NextRadius == Construct \/ CallCountWithinRadius
NextPipeline ==
  \/ process_wells_data
  \/ process_production_data
  \/ merge_cumulative_production
  \/ add_well_spacing_features
  \/ connect
  \/ load_wells
  \/ load_production
  \/ return_statistics

Spec == Init /\ [][Next]_vars
SpecField == InitField /\ [][Next]_vars
SpecDistance == InitDistance /\ [][NextDistance]_vars
SpecRadius == InitRadius /\ [][NextRadius]_vars
SpecPermuted == InitPermuted /\ [][Next]_vars
SpecPipeline == InitPipeline /\ [][NextPipeline]_vars

(* ---------------------------------------------------------------------- *)
(* Vocabulary of the properties                                           *)
(* ---------------------------------------------------------------------- *)
Rows == 1..Len(input_df)

HasCoordinates(w) == pd_notna(w.SHLLatitude) /\ pd_notna(w.SHLLongitude)

InRange(w) ==
  /\ FloatLe(MinLat, w.SHLLatitude) /\ FloatLe(w.SHLLatitude, MaxLat)
  /\ FloatLe(MinLng, w.SHLLongitude) /\ FloatLe(w.SHLLongitude, MaxLng)

ValidCoordinates(w) == HasCoordinates(w) /\ InRange(w)

UniqueAPI10 ==
  \A i, j \in Rows : i # j => input_df[i].API10 # input_df[j].API10

\* distance_in_feet from w to row j returns a distance
Measured(w, j) == DistanceBetween(w, input_df[j]).raised = "none"
Feet(w, j)     == DistanceBetween(w, input_df[j]).value

MinOf(S) == CHOOSE m \in S : \A x \in S : m <= x

\* the smallest distance from w to the rows of S, absent when S is empty
NearestOver(w, S) ==
  IF S = {} THEN NaN ELSE Num(MinOf({Feet(w, j) : j \in S}))

\* the number of rows of S at most radius feet from w
CountWithin(w, S, radius) == Cardinality({j \in S : Feet(w, j) <= radius})

RECURSIVE TotalFeet(_, _)
TotalFeet(w, S) ==
  IF S = {} THEN 0
  ELSE LET j == CHOOSE x \in S : TRUE
       IN  Feet(w, j) + TotalFeet(w, S \ {j})

\* the mean of the three smallest distances from w to the rows of S
MeanOfThreeNearest(w, S) ==
  IF Cardinality(S) < 3 THEN NaN
  ELSE LET T == CHOOSE T \in SUBSET S :
                  /\ Cardinality(T) = 3
                  /\ \A a \in T, b \in S \ T : Feet(w, a) <= Feet(w, b)
       IN  Frac(TotalFeet(w, T), 3)

\* rows of S per square mile of the 2-mile circle around w (times pi)
DensityOver(w, S) == Frac(CountWithin(w, S, 2 * 5280), 2 * 2)

\* the horizontal wells with coordinates whose distance from w is defined
HorizontalMeasured(w) ==
  {j \in Rows : /\ input_df[j].IsHorizontalWell
                /\ HasCoordinates(input_df[j])
                /\ Measured(w, j)}
AllMeasured(w) ==
  {j \in Rows : HasCoordinates(input_df[j]) /\ Measured(w, j)}
OtherAPI10(w) == {j \in Rows : input_df[j].API10 # w.API10}

Done == pc = "done"

(* ---------------------------------------------------------------------- *)
(* C1  A well whose latitude or longitude is absent gets the default      *)
(* result: no nearest distance, count 0, no average, density 0.0,         *)
(* whatever the other wells are.                                          *)
(* ---------------------------------------------------------------------- *)
C1_AbsentCoordinatesGiveDefaults ==
  Done =>
    \A i \in Rows :
      ~HasCoordinates(input_df[i]) =>
        /\ returned[i].DistanceToNearestHorizontalWell = NaN
        /\ returned[i].HorizontalWellsWithin1Mile = 0
        /\ returned[i].AvgDistanceTo3NearestHorizontal = NaN
        /\ returned[i].WellDensityScore = Num(0)

C1_Witness ==
  /\ Done
  /\ \E i, j \in Rows :
       /\ ~HasCoordinates(input_df[i])
       /\ input_df[j].IsHorizontalWell
       /\ ValidCoordinates(input_df[j])

(* ---------------------------------------------------------------------- *)
(* C2  With unique API10 a well never counts itself: the four features of *)
(* a well with valid coordinates are those computed from the other rows   *)
(* only, and a horizontal well's nearest distance is not 0 when every     *)
(* other horizontal well is at a non-zero distance.                       *)
(* ---------------------------------------------------------------------- *)
C2_NeverOwnNeighbor ==
  (Done /\ UniqueAPI10) =>
    \A i \in Rows :
      LET w  == input_df[i]
          Hz == HorizontalMeasured(w) \ {i}
          Al == AllMeasured(w) \ {i}
      IN  ValidCoordinates(w) =>
            /\ returned[i].DistanceToNearestHorizontalWell = NearestOver(w, Hz)
            /\ returned[i].HorizontalWellsWithin1Mile = CountWithin(w, Hz, 5280)
            /\ returned[i].AvgDistanceTo3NearestHorizontal
                 = MeanOfThreeNearest(w, Hz)
            /\ returned[i].WellDensityScore = DensityOver(w, Al)
            /\ (w.IsHorizontalWell /\ \A j \in Hz : Feet(w, j) > 0)
                  => returned[i].DistanceToNearestHorizontalWell # Num(0)

C2_Witness ==
  /\ Done
  /\ UniqueAPI10
  /\ \E i, j \in Rows :
       /\ i # j
       /\ input_df[i].IsHorizontalWell /\ ValidCoordinates(input_df[i])
       /\ input_df[j].IsHorizontalWell /\ ValidCoordinates(input_df[j])
       /\ returned[i].DistanceToNearestHorizontalWell = Num(5280)

(* ---------------------------------------------------------------------- *)
(* C3  (as stated) The nearest distance of a well w with valid            *)
(* coordinates is the minimum distance to the horizontal wells with both  *)
(* coordinates present and an API10 other than w's, and is absent exactly *)
(* when there is no such well.                                            *)
(* ---------------------------------------------------------------------- *)
C3_NearestOverPresentCoordinates ==
  Done =>
    \A i \in Rows :
      LET w == input_df[i]
          C == {j \in OtherAPI10(w) : /\ input_df[j].IsHorizontalWell
                                      /\ HasCoordinates(input_df[j])}
      IN  ValidCoordinates(w) =>
            /\ (returned[i].DistanceToNearestHorizontalWell = NaN) <=> (C = {})
            /\ C # {} =>
                 returned[i].DistanceToNearestHorizontalWell
                   = NearestOver(w, C \cap HorizontalMeasured(w))

(* ---------------------------------------------------------------------- *)
(* C3  (amended) The nearest distance of a well w with valid coordinates  *)
(* is the minimum distance to the horizontal wells with both coordinates  *)
(* present to which distance_in_feet returns a distance, leaving out the  *)
(* rows with w's API10 when w is horizontal, and is absent exactly when   *)
(* there is no such well.                                                 *)
(* ---------------------------------------------------------------------- *)
C3_NearestOverMeasured ==
  Done =>
    \A i \in Rows :
      LET w == input_df[i]
          C == IF w.IsHorizontalWell
               THEN HorizontalMeasured(w) \cap OtherAPI10(w)
               ELSE HorizontalMeasured(w)
      IN  ValidCoordinates(w) =>
            /\ (returned[i].DistanceToNearestHorizontalWell = NaN) <=> (C = {})
            /\ returned[i].DistanceToNearestHorizontalWell = NearestOver(w, C)

C3_Witness ==
  /\ Done
  /\ \E i, j, k \in Rows :
       /\ ValidCoordinates(input_df[i])
       /\ input_df[j].IsHorizontalWell /\ input_df[k].IsHorizontalWell
       /\ HasCoordinates(input_df[k]) /\ ~InRange(input_df[k])
       /\ ValidCoordinates(input_df[j])
       /\ Measured(input_df[i], j) /\ Feet(input_df[i], j) = 10561
       /\ returned[i].DistanceToNearestHorizontalWell = Num(10561)

(* ---------------------------------------------------------------------- *)
(* C4  HorizontalWellsWithin1Mile of a well w with valid coordinates is   *)
(* the number of horizontal wells with both coordinates present, an API10 *)
(* other than w's and a distance to w of at most 5280 feet; 5280 counts.  *)
(* ---------------------------------------------------------------------- *)
C4_CountWithinOneMile ==
  Done =>
    \A i \in Rows :
      LET w == input_df[i]
      IN  ValidCoordinates(w) =>
            returned[i].HorizontalWellsWithin1Mile =
              Cardinality({j \in OtherAPI10(w) :
                             /\ input_df[j].IsHorizontalWell
                             /\ HasCoordinates(input_df[j])
                             /\ Measured(w, j)
                             /\ Feet(w, j) <= 5280})

C4_Witness ==
  /\ Done
  /\ \E i, j \in Rows :
       /\ ValidCoordinates(input_df[i])
       /\ input_df[j].IsHorizontalWell /\ HasCoordinates(input_df[j])
       /\ input_df[j].API10 # input_df[i].API10
       /\ Measured(input_df[i], j) /\ Feet(input_df[i], j) = 5280
       /\ returned[i].HorizontalWellsWithin1Mile = 1

(* ---------------------------------------------------------------------- *)
(* C5  AvgDistanceTo3NearestHorizontal of a well w with valid coordinates *)
(* is the mean of the three smallest distances from w to the horizontal   *)
(* wells other than w whose distance is defined when there are at least   *)
(* three of them, and absent when there are fewer.                        *)
(* ---------------------------------------------------------------------- *)
C5_MeanOfThreeSmallest ==
  Done =>
    \A i \in Rows :
      LET w == input_df[i]
          Q == HorizontalMeasured(w) \cap OtherAPI10(w)
      IN  ValidCoordinates(w) =>
            /\ Cardinality(Q) < 3 =>
                 returned[i].AvgDistanceTo3NearestHorizontal = NaN
            /\ Cardinality(Q) >= 3 =>
                 returned[i].AvgDistanceTo3NearestHorizontal
                   = MeanOfThreeNearest(w, Q)

C5_Witness ==
  /\ Done
  /\ \E i \in Rows :
       LET w == input_df[i]
           Q == HorizontalMeasured(w) \cap OtherAPI10(w)
       IN  /\ ValidCoordinates(w)
           /\ Cardinality(Q) = 4
           /\ \E j \in Q : Feet(w, j) = 10561
           /\ returned[i].AvgDistanceTo3NearestHorizontal = Num(1760)

(* ---------------------------------------------------------------------- *)
(* C6  WellDensityScore of a well w with valid coordinates is the number  *)
(* of wells, horizontal or not, with both coordinates present, an API10   *)
(* other than w's and a distance to w of at most 10560 feet, divided by   *)
(* the area of the 2-mile circle.                                         *)
(* ---------------------------------------------------------------------- *)
C6_DensityOverAllWells ==
  Done =>
    \A i \in Rows :
      LET w == input_df[i]
      IN  ValidCoordinates(w) =>
            returned[i].WellDensityScore =
              Frac(Cardinality({j \in OtherAPI10(w) :
                                  /\ HasCoordinates(input_df[j])
                                  /\ Measured(w, j)
                                  /\ Feet(w, j) <= 10560}),
                   2 * 2)

C6_Witness ==
  /\ Done
  /\ \E i, j \in Rows :
       /\ ValidCoordinates(input_df[i])
       /\ ~input_df[j].IsHorizontalWell
       /\ input_df[j].API10 # input_df[i].API10
       /\ ValidCoordinates(input_df[j])
       /\ Feet(input_df[i], j) = 10560
       /\ returned[i].WellDensityScore = Frac(1, 4)

\* the rows whose coordinates are present but out of range
OutOfRange(w) == HasCoordinates(w) /\ ~InRange(w)

\* the population without the rows whose coordinates are out of range
WithoutOutOfRange(df) == SelectSeq(df, LAMBDA o : ~OutOfRange(o))

(* ---------------------------------------------------------------------- *)
(* C7  A ValueError of distance_in_feet is caught in all four features:   *)
(* add_spacing_features never raises, and every well gets the features    *)
(* computed from the population without the wells whose coordinates are   *)
(* out of range.                                                          *)
(* ---------------------------------------------------------------------- *)
C7_InvalidCoordinateNeverAborts ==
  /\ pc # "raised"
  /\ exception = "none"
  /\ Done =>
       LET clean == WithoutOutOfRange(input_df)
           hz    == SelectHorizontal(clean)
       IN  \A i \in Rows :
             LET w == input_df[i]
             IN  /\ returned[i].DistanceToNearestHorizontalWell
                      = nearest_horizontal_distance(w, hz).value
                 /\ returned[i].HorizontalWellsWithin1Mile
                      = wells_within_radius(w, hz, 5280).value
                 /\ returned[i].AvgDistanceTo3NearestHorizontal
                      = average_distance_to_k_nearest(w, hz, 3).value
                 /\ returned[i].WellDensityScore
                      = well_density_score(w, clean).value

C7_Witness ==
  /\ Done
  /\ \E i, j, k \in Rows :
       /\ OutOfRange(input_df[k]) /\ input_df[k].IsHorizontalWell
       /\ input_df[k].API10 # input_df[i].API10
       /\ ValidCoordinates(input_df[i])
       /\ returned[i].DistanceToNearestHorizontalWell = Num(5280)
       /\ returned[i].WellDensityScore = Frac(1, 4)

(* ---------------------------------------------------------------------- *)
(* C8  A population with two rows of the same API10 makes the analyzer    *)
(* raise: no enriched records are returned for it.                        *)
(* ---------------------------------------------------------------------- *)
C8_DuplicateAPI10Aborts ==
  ~UniqueAPI10 => (pc # "done" /\ returned = <<>>)

InputColumns == {"API10", "SHLLatitude", "SHLLongitude", "IsHorizontalWell"}
SpacingColumns ==
  {"DistanceToNearestHorizontalWell", "HorizontalWellsWithin1Mile",
   "AvgDistanceTo3NearestHorizontal", "WellDensityScore"}

(* ---------------------------------------------------------------------- *)
(* C9  add_spacing_features returns the rows it was given, in the same    *)
(* order, every original column unchanged, each row with exactly the four *)
(* spacing columns computed for that row.                                 *)
(* ---------------------------------------------------------------------- *)
C9_SameRowsAugmented ==
  Done =>
    /\ Len(returned) = Len(input_df)
    /\ \A i \in Rows :
         LET w  == input_df[i]
             hz == SelectHorizontal(input_df)
         IN  /\ DOMAIN returned[i] = InputColumns \cup SpacingColumns
             /\ \A c \in InputColumns : returned[i][c] = w[c]
             /\ returned[i].DistanceToNearestHorizontalWell
                  = nearest_horizontal_distance(w, hz).value
             /\ returned[i].HorizontalWellsWithin1Mile
                  = wells_within_radius(w, hz, 5280).value
             /\ returned[i].AvgDistanceTo3NearestHorizontal
                  = average_distance_to_k_nearest(w, hz, 3).value
             /\ returned[i].WellDensityScore
                  = well_density_score(w, input_df).value

C9_Witness ==
  /\ Done
  /\ Len(returned) = 3
  /\ returned[1].HorizontalWellsWithin1Mile = 1
  /\ returned[2].HorizontalWellsWithin1Mile = 0
  /\ returned[3].DistanceToNearestHorizontalWell = Num(10561)

\* a coordinate argument that is a finite number
Finite(c) == c.kind = "float"

(* ---------------------------------------------------------------------- *)
(* C10  distance_in_feet raises ValueError when an argument is None, NaN  *)
(* or not finite, a latitude is outside [-90, 90] or a longitude outside  *)
(* [-180, 180], and returns a distance for every other argument list.     *)
(* ---------------------------------------------------------------------- *)
C10_RaisesExactlyOnInvalid ==
  pc = "ret" =>
    LET invalid ==
          \/ \E k \in 1..4 : ~Finite(args[k])
          \/ \E k \in {1, 3} :
               ~(FloatLe(MinLat, args[k]) /\ FloatLe(args[k], MaxLat))
          \/ \E k \in {2, 4} :
               ~(FloatLe(MinLng, args[k]) /\ FloatLe(args[k], MaxLng))
    IN  /\ invalid => outcome.raised = "ValueError"
        /\ ~invalid => outcome.raised = "none"

\* a latitude and a longitude that are finite and in range
ValidPoint(lat, lng) ==
  /\ Finite(lat) /\ FloatLe(MinLat, lat) /\ FloatLe(lat, MaxLat)
  /\ Finite(lng) /\ FloatLe(MinLng, lng) /\ FloatLe(lng, MaxLng)

(* ---------------------------------------------------------------------- *)
(* C11  The distance from a valid point to itself is exactly 0.           *)
(* ---------------------------------------------------------------------- *)
C11_SamePointIsZero ==
  (pc = "ret" /\ ValidPoint(args[1], args[2])
     /\ args[3] = args[1] /\ args[4] = args[2])
    => outcome = Ok(0)

C11_Witness ==
  /\ pc = "ret"
  /\ args = <<MaxLat, MinLng, MaxLat, MinLng>>
  /\ outcome = Ok(0)

(* ---------------------------------------------------------------------- *)
(* C12  For two valid points the distance is the same in both directions  *)
(* and is a non-negative integer.                                         *)
(* ---------------------------------------------------------------------- *)
C12_SymmetricNonNegative ==
  (pc = "ret" /\ ValidPoint(args[1], args[2]) /\ ValidPoint(args[3], args[4]))
    => /\ outcome = distance_in_feet(args[3], args[4], args[1], args[2])
       /\ outcome.raised = "none"
       /\ outcome.value \in Nat

\* the counts of _count_wells_within_radius for a radius in miles
CountsWithinMiles(miles) ==
  count_wells_within_radius(wells_df, horizontal_wells,
                            miles * feet_per_mile).value

(* ---------------------------------------------------------------------- *)
(* C13  The radius count is monotone in the radius: the count of a well   *)
(* within a radius is at most its count within any larger radius.         *)
(* ---------------------------------------------------------------------- *)
C13_CountMonotoneInRadius ==
  pc = "counted" =>
    /\ outcome.raised = "none"
    /\ \A r2 \in args[1]..MaxRadiusMiles :
         \A i \in 1..Len(wells_df) :
            outcome.value[i] <= CountsWithinMiles(r2)[i]

C13_Witness ==
  /\ pc = "counted"
  /\ args = <<1>>
  /\ \E i \in 1..Len(wells_df) :
       /\ outcome.value[i] = 1
       /\ CountsWithinMiles(2)[i] = 1
       /\ CountsWithinMiles(3)[i] = 3

\* the rows of df in the order p
Permuted(df, p) == [i \in 1..Len(df) |-> df[p[i]]]

(* ---------------------------------------------------------------------- *)
(* C14  The features of a well depend on its record and on the set of     *)
(* records, not on their order: computed on any permutation of the input, *)
(* each record gets the four features it was returned with.               *)
(* ---------------------------------------------------------------------- *)
C14_OrderIndependent ==
  Done =>
    \A p \in Permutations(Rows) :
      \E df \in {Permuted(input_df, p)} :
        \E hz \in {SelectHorizontal(df)} :
          \A i \in Rows :
            /\ nearest_horizontal_distance(df[i], hz)
                 = Ok(returned[p[i]].DistanceToNearestHorizontalWell)
            /\ wells_within_radius(df[i], hz, 5280)
                 = Ok(returned[p[i]].HorizontalWellsWithin1Mile)
            /\ average_distance_to_k_nearest(df[i], hz, 3)
                 = Ok(returned[p[i]].AvgDistanceTo3NearestHorizontal)
            /\ well_density_score(df[i], df)
                 = Ok(returned[p[i]].WellDensityScore)

C14_Witness ==
  /\ Done
  /\ Len(returned) = 4
  /\ returned[1].DistanceToNearestHorizontalWell = Num(5281)
  /\ returned[2].DistanceToNearestHorizontalWell = Num(5280)
  /\ returned[2].AvgDistanceTo3NearestHorizontal
       = Frac(5280 + 5280 + 10561, 3)
  /\ returned[3].HorizontalWellsWithin1Mile = 1

\* a horizontal well whose latitude or longitude is absent
AbsentHorizontal(w) == w.IsHorizontalWell /\ ~HasCoordinates(w)

\* the population without the horizontal wells that have no coordinates
WithoutAbsentHorizontal(df) == SelectSeq(df, LAMBDA o : ~AbsentHorizontal(o))

\* the reference set: the horizontal wells with both coordinates present
ReferenceSet(df) ==
  SelectSeq(df, LAMBDA o : o.IsHorizontalWell /\ HasCoordinates(o))

(* ---------------------------------------------------------------------- *)
(* C15  A horizontal well whose latitude or longitude is absent is not a  *)
(* member of the reference set: every well has the three neighbor         *)
(* features computed over the horizontal wells with coordinates only and  *)
(* the density computed without the horizontal wells lacking coordinates, *)
(* so such a well is never one of the three candidates of the average.    *)
(* ---------------------------------------------------------------------- *)
C15_AbsentNeverContributes ==
  Done =>
    \E present \in {WithoutAbsentHorizontal(input_df)} :
      \E hz \in {ReferenceSet(input_df)} :
        \A i \in Rows :
          LET w == input_df[i]
          IN  /\ returned[i].DistanceToNearestHorizontalWell
                   = nearest_horizontal_distance(w, hz).value
              /\ returned[i].HorizontalWellsWithin1Mile
                   = wells_within_radius(w, hz, 5280).value
              /\ returned[i].AvgDistanceTo3NearestHorizontal
                   = average_distance_to_k_nearest(w, hz, 3).value
              /\ returned[i].WellDensityScore
                   = well_density_score(w, present).value

C15_Witness ==
  /\ Done
  /\ \E j \in 1..Len(horizontal_wells) :
       AbsentHorizontal(horizontal_wells[j])
  /\ \E i \in Rows :
       /\ ValidCoordinates(input_df[i])
       /\ Cardinality({j \in OtherAPI10(input_df[i]) :
                         input_df[j].IsHorizontalWell}) = 3
       /\ returned[i].HorizontalWellsWithin1Mile = 2
       /\ returned[i].AvgDistanceTo3NearestHorizontal = NaN
       /\ returned[i].WellDensityScore = Frac(2, 4)

\* the population without its row k
WithoutRow(df, k) ==
  [i \in 1..(Len(df) - 1) |-> IF i < k THEN df[i] ELSE df[i + 1]]

\* the population with its row k moved to loc
WithRowAt(df, k, loc) ==
  [df EXCEPT ![k] = Well(df[k].API10, loc, df[k].IsHorizontalWell)]

\* the three neighbor features returned for row i are those of its well in df
SameNeighborFeatures(i, df) ==
  \E hz \in {SelectHorizontal(df)} :
    /\ returned[i].DistanceToNearestHorizontalWell
         = nearest_horizontal_distance(input_df[i], hz).value
    /\ returned[i].HorizontalWellsWithin1Mile
         = wells_within_radius(input_df[i], hz, 5280).value
    /\ returned[i].AvgDistanceTo3NearestHorizontal
         = average_distance_to_k_nearest(input_df[i], hz, 3).value

(* ---------------------------------------------------------------------- *)
(* C16  The three neighbor features use only horizontal wells: with a     *)
(* non-horizontal well removed from the population (or, read the other    *)
(* way, added to it) or moved elsewhere, every other well has the same    *)
(* nearest distance, count within one mile and average of three.          *)
(* ---------------------------------------------------------------------- *)
C16_NonHorizontalNeverANeighbor ==
  Done =>
    \A k \in Rows :
      ~input_df[k].IsHorizontalWell =>
        \A i \in Rows \ {k} :
          /\ SameNeighborFeatures(i, WithoutRow(input_df, k))
          /\ \A loc \in Locations :
               SameNeighborFeatures(i, WithRowAt(input_df, k, loc))

\* a well with three horizontal neighbors whose density score changes when
\* a non-horizontal well is taken away
C16_Witness ==
  /\ Done
  /\ \E i, k \in Rows :
       /\ i # k
       /\ ~input_df[k].IsHorizontalWell
       /\ returned[i].AvgDistanceTo3NearestHorizontal
            = Frac(0 + 5280 + 10561, 3)
       /\ returned[i].WellDensityScore = Frac(3, 4)
       /\ well_density_score(input_df[i], WithoutRow(input_df, k))
            = Ok(Frac(2, 4))

(* ---------------------------------------------------------------------- *)
(* C17  Computing the features never mutates the caller's population nor  *)
(* the reference set: the table passed in keeps its records and its       *)
(* columns (the four new fields are on the returned value only), and the  *)
(* horizontal subset is the same before and after add_spacing_features.   *)
(* ---------------------------------------------------------------------- *)
C17_InputAndReferenceNeverMutated ==
  /\ [](Done => /\ \A i \in Rows : DOMAIN input_df[i] = InputColumns
                /\ \A i \in 1..Len(returned) :
                     SpacingColumns \subseteq DOMAIN returned[i])
  /\ [][/\ input_df' = input_df
        /\ pc = "constructed" => horizontal_wells' = horizontal_wells]_vars

C17_Witness ==
  /\ Done
  /\ ~aliased
  /\ Len(input_df) = 3
  /\ Len(horizontal_wells) = 2
  /\ DOMAIN input_df[1] = InputColumns
  /\ returned[1].WellDensityScore = Frac(2, 4)

\* the four features returned for row i are those of its well in df
SameFeatures(i, df) ==
  /\ SameNeighborFeatures(i, df)
  /\ returned[i].WellDensityScore
       = well_density_score(input_df[i], df).value

(* ---------------------------------------------------------------------- *)
(* C20  A well whose coordinates are present but out of range gets no     *)
(* nearest distance, count 0, no average and density 0.0, and every other *)
(* well has the features of the population without it.                    *)
(* ---------------------------------------------------------------------- *)
C20_OutOfRangeWellIsIsolated ==
  Done =>
    \A k \in Rows :
      OutOfRange(input_df[k]) =>
        /\ returned[k].DistanceToNearestHorizontalWell = NaN
        /\ returned[k].HorizontalWellsWithin1Mile = 0
        /\ returned[k].AvgDistanceTo3NearestHorizontal = NaN
        /\ returned[k].WellDensityScore = Num(0)
        /\ \A i \in Rows \ {k} : SameFeatures(i, WithoutRow(input_df, k))

C20_Witness ==
  /\ Done
  /\ Len(input_df) = 3
  /\ OutOfRange(input_df[2])
  /\ input_df[2].IsHorizontalWell
  /\ returned[2].WellDensityScore = Num(0)
  /\ returned[1].DistanceToNearestHorizontalWell = Num(5280)
  /\ returned[1].WellDensityScore = Frac(1, 4)
  /\ returned[3].HorizontalWellsWithin1Mile = 1

(* ---------------------------------------------------------------------- *)
(* C18  The population handed to WellSpacingAnalyzer by the pipeline has  *)
(* each API10 at most once, whatever the bottom hole file holds, when the *)
(* wells file has each API10 once.                                        *)
(* ---------------------------------------------------------------------- *)
C18_AnalyzerInputHasUniqueAPI10 ==
  pc = "spaced" => UniqueAPI10

\* the four steps of run that come before the load, in their order
StepsBeforeLoad ==
  <<"process_wells_data", "process_production_data",
    "merge_cumulative_production", "add_well_spacing_features">>

\* the load step has started: the connection was made or a table written
LoadStarted ==
  \/ pc \in {"connected", "wells_loaded", "loaded", "returned"}
  \/ engine
  \/ DOMAIN tables # {}

(* ---------------------------------------------------------------------- *)
(* C19  In ETLPipeline.run the load to the database starts only after the *)
(* wells processing, the production processing, the cumulative merge and  *)
(* the spacing features have all completed; when one of them raises, no   *)
(* table is loaded, no statistics are returned and the exception is       *)
(* raised again.                                                          *)
(* ---------------------------------------------------------------------- *)
C19_LoadOnlyAfterAllSteps ==
  /\ LoadStarted =>
       /\ Len(completed) >= 4
       /\ SubSeq(completed, 1, 4) = StepsBeforeLoad
  /\ (pc = "failed" /\ Len(completed) < 4) =>
       /\ ~LoadStarted
       /\ DOMAIN stats = {}
       /\ run_result = "raised"

\* the spacing step raised after the three steps before it had completed
C19_Witness ==
  /\ pc = "failed"
  /\ completed = SubSeq(StepsBeforeLoad, 1, 3)
  /\ Len(wells_final) = 2
  /\ DOMAIN tables = {}
  /\ run_result = "raised"

\* the number of wells counted within 2 miles for the density score of a
\* row: the score is that number over the area
DensityCount(row) ==
  (row.WellDensityScore.num * area_sq_miles_over_pi)
    \div row.WellDensityScore.den

(* ---------------------------------------------------------------------- *)
(* C21  With unique API10 the four features of a well are consistent: an  *)
(* average of three that is present comes with a nearest distance that is *)
(* present and not greater than it; the count within one mile is at least *)
(* 1 exactly when the nearest distance is present and at most 5280; and   *)
(* the count within one mile is at most the number of wells counted       *)
(* within 2 miles for the density score.                                  *)
(* ---------------------------------------------------------------------- *)
C21_FeaturesMutuallyConsistent ==
  (Done /\ UniqueAPI10) =>
    \A i \in Rows :
      LET nearest == returned[i].DistanceToNearestHorizontalWell
          count   == returned[i].HorizontalWellsWithin1Mile
          average == returned[i].AvgDistanceTo3NearestHorizontal
      IN  /\ pd_notna(average)
               => (pd_notna(nearest) /\ FloatLe(nearest, average))
          /\ count >= 1
               <=> (pd_notna(nearest) /\ FloatLe(nearest, Num(5280)))
          /\ count <= DensityCount(returned[i])

C21_Witness ==
  /\ Done
  /\ UniqueAPI10
  /\ \E i \in Rows :
       /\ returned[i].DistanceToNearestHorizontalWell = Num(5280)
       /\ returned[i].HorizontalWellsWithin1Mile = 1
       /\ returned[i].AvgDistanceTo3NearestHorizontal
            = Frac(5280 + 10561 + 10561, 3)
       /\ DensityCount(returned[i]) = 1
  /\ \E i \in Rows :
       /\ returned[i].DistanceToNearestHorizontalWell = Num(5281)
       /\ returned[i].HorizontalWellsWithin1Mile = 0
       /\ DensityCount(returned[i]) = 3
====
